---- MODULE Spec2Model ----
(***************************************************************************)
(* Model of package dhkam: blinded Diffie-Hellman key agreement over a     *)
(* fixed group and the RFC 2631 key derivation built on it.                *)
(*                                                                         *)
(* The group is scaled so that the arithmetic is finite-state: the modulus *)
(* P is a 24-bit safe prime (P = 2q+1, P = 7 mod 8, so that g = 2          *)
(* generates the subgroup of order q, as in RFC 3526 group 14), a private  *)
(* exponent is lenPriv = 1 byte instead of 32, a blinding draw is          *)
(* lenPub = 8 bits instead of 256, and the two blinding offsets keep       *)
(* their relation to lenPub (2^lenPub and 2^(lenPub+2)).  Bytes are 8 bits *)
(* wide, byte strings are sequences of 0..255.                             *)
(***************************************************************************)
EXTENDS Integers, Sequences, FiniteSets, TLC

VARIABLES prv, sk, imp, pubImp, bl, kek, cek, pad

vars == <<prv, sk, imp, pubImp, bl, kek, cek, pad>>

----------------------------------------------------------------------------
(* Bounds of the model.                                                    *)

\* the random source yields bytes 0..MaxRand
MaxRand == 2
\* the longest sequence of reads one operation takes from the random source
MaxReads == 3
\* requested shared-key sizes are 0..MaxSize
MaxSize == 3
\* bases handed to blind are 0..MaxBase (and a few next to P)
MaxBase == 11
\* declared key lengths are 0..MaxKeyLen
MaxKeyLen == 3
\* hash output sizes are 1..MaxHash
MaxHash == 2
\* CEK calls of one party
MaxCalls == 3
\* byte strings handed to zeroPad, and its outlen, are at most MaxPadLen long
MaxPadLen == 3

Parties == {1, 2}

Other(p) == IF p = 1 THEN 2 ELSE 1

----------------------------------------------------------------------------
(* Constants of the package.                                               *)

lenPriv == 1
lenPub == 8 * lenPriv

P == 16774679
g == 2
bigZero == 0
bigOne == 1
big2To256 == 2 ^ lenPub
big2To258 == 2 ^ (lenPub + 2)

\* the error values; Nil is the nil error, Panic a run-time panic of the call
Nil == "nil"
ErrBlindingFailed == "dhkam: blinding failed"
ErrInvalidKEKParams == "dhkam: invalid KEK parameters"
ErrInvalidPrivateKey == "dhkam: invalid private key"
ErrInvalidPublicKey == "dhkam: invalid public key"
ErrInvalidSharedKey == "dhkam: invalid shared key"
ErrIO == "io: read failed"
ErrMarshal == "asn1: structure error"
Panic == "panic"
NotCalled == "not called"

\* a nil *big.Int
NilInt == 0 - 1

----------------------------------------------------------------------------
(* math/big as the package uses it.                                        *)

RECURSIVE BitLen(_)
BitLen(n) == IF n = 0 THEN 0 ELSE 1 + BitLen(n \div 2)

\* big.Int.Bytes: the big-endian bytes of n, without leading zeros
RECURSIVE Bytes(_)
Bytes(n) == IF n = 0 THEN <<>> ELSE Append(Bytes(n \div 256), n % 256)

\* big.Int.SetBytes: the value of a big-endian byte string
RECURSIVE SetBytes(_)
SetBytes(s) ==
    IF s = <<>> THEN 0
    ELSE SetBytes(SubSeq(s, 1, Len(s) - 1)) * 256 + s[Len(s)]

\* (a * b) mod m, by 6-bit digits of b so that no intermediate exceeds 2^31
RECURSIVE MulMod(_, _, _)
MulMod(a, b, m) ==
    IF b = 0 THEN 0
    ELSE (MulMod(a, b \div 64, m) * 64 + (a % m) * (b % 64)) % m

\* big.Int.Exp(a, e, m) for e >= 0
RECURSIVE Exp(_, _, _)
Exp(a, e, m) ==
    IF e = 0 THEN 1 % m
    ELSE LET h == Exp(a, e \div 2, m)
             s == MulMod(h, h, m)
         IN  IF e % 2 = 1 THEN MulMod(s, a, m) ELSE s

----------------------------------------------------------------------------
(* The random source: a stream of reads of lenPriv bytes each (a key       *)
(* candidate and a blinding draw are both lenPriv = lenPub/8 bytes), each  *)
(* read failing or yielding bytes.                                         *)

RandByte == 0 .. MaxRand

Reads ==
    {[ok |-> FALSE, bs |-> <<>>]}
        \cup {[ok |-> TRUE, bs |-> b] : b \in [1 .. lenPriv -> RandByte]}

Streams(n) == [1 .. n -> Reads]

----------------------------------------------------------------------------
(* Keys.                                                                   *)

\* PublicKey.Valid
Valid(A) == ~(BitLen(A) > BitLen(P))

\* ImportPublic: the key (none on error) and the error
ImportPublic(in) ==
    LET A == SetBytes(in)
    IN  IF ~Valid(A) THEN [pub |-> <<>>, err |-> ErrInvalidPublicKey]
        ELSE [pub |-> <<A>>, err |-> Nil]

\* randBigInt(prng, size): reads size/8 bytes
randBigInt(rs, size) ==
    LET rd == Head(rs)
    IN  IF ~rd.ok THEN [r |-> NilInt, err |-> ErrIO]
        ELSE [r |-> SetBytes(SubSeq(rd.bs, 1, size \div 8)), err |-> Nil]

\* blind with the recombination of the two partial powers left out
blindNoRecombine(rs, a, x) ==
    LET rr == randBigInt(rs, lenPub)
    IN  IF rr.err # Nil THEN [y |-> NilInt, err |-> ErrBlindingFailed]
        ELSE [y |-> Exp(a, (big2To258 + x) - (big2To256 + rr.r), P), err |-> Nil]

\* blind(prng, a, x)
blind(rs, a, x) ==
    LET bx0 == big2To258 + x
        rr == randBigInt(rs, lenPub)
    IN  IF rr.err # Nil THEN [y |-> NilInt, err |-> ErrBlindingFailed]
        ELSE LET blinding == big2To256 + rr.r
                 bx == bx0 - blinding
                 r1 == Exp(a, blinding, P)
                 r2 == Exp(a, bx, P)
                 y == MulMod(r1, r2, P)
             IN  IF BitLen(y) > BitLen(P)
                 THEN [y |-> NilInt, err |-> ErrBlindingFailed]
                 ELSE [y |-> y, err |-> Nil]

\* generatePublicKey(prng, x)
generatePublicKey(rs, x) ==
    LET b == blind(rs, g, x)
    IN  IF b.err = Nil /\ ~Valid(b.y)
        THEN [A |-> b.y, err |-> ErrInvalidPublicKey]
        ELSE [A |-> b.y, err |-> b.err]

\* a *PrivateKey: nil is <<>>, a key is <<[X, A]>>
NilKey == <<>>
Key(X, A) == <<[X |-> X, A |-> A]>>

\* the reads of rs that GenerateKey consumes before it stops resampling
RECURSIVE Resamples(_)
Resamples(rs) ==
    IF rs = <<>> THEN 0
    ELSE LET rd == Head(rs)
         IN  IF rd.ok /\ (SetBytes(rd.bs) <= bigZero
                          \/ SetBytes(rd.bs) > P - bigOne)
             THEN 1 + Resamples(Tail(rs))
             ELSE 0

\* GenerateKey(prng) on a stream that holds every read it takes
RECURSIVE GenerateKey(_)
GenerateKey(rs) ==
    LET rd == Head(rs)
    IN  IF ~rd.ok THEN [key |-> NilKey, err |-> ErrIO]
        ELSE LET X == SetBytes(rd.bs)
             IN  IF ~(X > bigZero) THEN GenerateKey(Tail(rs))
                 ELSE IF X > P - bigOne THEN GenerateKey(Tail(rs))
                 ELSE LET gp == generatePublicKey(Tail(rs), X)
                      IN  [key |-> Key(X, gp.A), err |-> gp.err]

\* PrivateKey.Export
Export(key) ==
    IF key = NilKey \/ key[1].A = NilInt THEN <<>> ELSE Bytes(key[1].A)

\* ExportPrivate returning the public element
ExportPrivateAsPublic(key) == Export(key)

\* PrivateKey.ExportPrivate
ExportPrivate(key) == IF key = NilKey THEN <<>> ELSE Bytes(key[1].X)

\* ImportPrivate(prng, in)
ImportPrivate(rs, in) ==
    LET X == SetBytes(in)
        gp == generatePublicKey(rs, X)
    IN  [key |-> Key(X, gp.A), err |-> gp.err]

\* SharedKey raising the generator, not the peer's element, to the exponent
SharedKeyOwnBase(rs, X, A, size) ==
    IF ~Valid(A) THEN [sk |-> <<>>, err |-> ErrInvalidPublicKey]
    ELSE LET b == blind(rs, g, X)
         IN  IF b.err # Nil THEN [sk |-> <<>>, err |-> b.err]
             ELSE IF size < 0 \/ size > Len(Bytes(b.y))
                  THEN [sk |-> <<>>, err |-> Panic]
                  ELSE [sk |-> SubSeq(Bytes(b.y), 1, size), err |-> Nil]

\* PrivateKey.SharedKey(prng, pub, size), prv.X = X, pub.A = A.  The slice
\* expression skBig.Bytes()[:size] panics when size exceeds the capacity of
\* the byte slice, which Bytes() returns with capacity equal to its length.
SharedKey(rs, X, A, size) ==
    IF ~Valid(A) THEN [sk |-> <<>>, err |-> ErrInvalidPublicKey]
    ELSE LET b == blind(rs, A, X)
         IN  IF b.err # Nil THEN [sk |-> <<>>, err |-> b.err]
             ELSE LET bs == Bytes(b.y)
                  IN  IF size < 0 \/ size > Len(bs)
                      THEN [sk |-> <<>>, err |-> Panic]
                      ELSE LET s == SubSeq(bs, 1, size)
                           IN  [sk |-> s,
                                err |-> IF Len(s) < size
                                        THEN ErrInvalidSharedKey ELSE Nil]

----------------------------------------------------------------------------
(* State.                                                                  *)
(*   prv[p]   what GenerateKey returned to party p                         *)
(*   sk[p]    party p's SharedKey call: the peer element, the size and     *)
(*            what the call returned                                       *)
(*   imp[p]   party p's ImportPrivate(ExportPrivate(prv[p])) call          *)
(*   pubImp   the ImportPublic call: its input and what it returned        *)
(*   bl       the blind call: its arguments and what it returned           *)
(*   kek[p]   the *KEK party p holds (k) and how it came by it (err)       *)
(*   cek[p]   the CEK calls party p made on kek[p]: the key and error      *)
(*            returned, the KEK's counter before (c0) and after (c1)       *)
(*   pad      the zeroPad call: its arguments and what it returned         *)

NoKeyYet == [key |-> NilKey, err |-> NotCalled]
NoRead == [ok |-> FALSE, bs |-> <<>>]
NoSk == [pub |-> NilInt, size |-> 0, sk |-> <<>>, err |-> NotCalled]
NoImp == [rd |-> NoRead, key |-> NilKey, err |-> NotCalled]
NoPubImp == [in |-> <<>>, pub |-> <<>>, err |-> NotCalled]
NoBl == [a |-> NilInt, x |-> NilInt, rd |-> NoRead, y |-> NilInt, err |-> NotCalled]
NilKEK == <<>>
NoPad == [in |-> <<>>, outlen |-> 0, out |-> <<>>, err |-> NotCalled]

InitBase ==
    /\ prv = [p \in Parties |-> NoKeyYet]
    /\ sk = [p \in Parties |-> NoSk]
    /\ imp = [p \in Parties |-> NoImp]
    /\ pubImp = NoPubImp
    /\ bl = NoBl
    /\ kek = [p \in Parties |-> [k |-> NilKEK, err |-> NotCalled]]
    /\ cek = [p \in Parties |-> <<>>]
    /\ pad = NoPad

\* party p has a usable key pair
HasKey(p) == prv[p].err = Nil /\ prv[p].key # NilKey

\* public elements a caller hands in without having generated them
PeerValues == {0, 1, P - 1, 2 ^ BitLen(P)}

----------------------------------------------------------------------------
(* Key agreement.                                                          *)

\* party p calls GenerateKey
DoGenerateKey(p) ==
    /\ prv[p].err = NotCalled
    /\ \E rs \in Streams(MaxReads) :
          /\ Resamples(rs) < MaxReads - 1
          /\ prv' = [prv EXCEPT ![p] = GenerateKey(rs)]
    /\ UNCHANGED <<sk, imp, pubImp, bl, kek, cek, pad>>

\* party p calls prv.SharedKey(prng, pub, size) with pub.A = A
DoSharedKey(p) ==
    /\ HasKey(p)
    /\ sk[p].err = NotCalled
    /\ \E rs \in Streams(1), size \in 0 .. MaxSize,
          A \in PeerValues \cup {prv[q].key[1].A : q \in {r \in Parties : HasKey(r)}} :
          LET res == SharedKey(rs, prv[p].key[1].X, A, size)
          IN  sk' = [sk EXCEPT ![p] = [pub |-> A, size |-> size,
                                       sk |-> res.sk, err |-> res.err]]
    /\ UNCHANGED <<prv, imp, pubImp, bl, kek, cek, pad>>

Next == \E p \in Parties : DoGenerateKey(p) \/ DoSharedKey(p)

Spec == InitBase /\ [][Next]_vars

----------------------------------------------------------------------------
(* Import and export of keys.                                              *)

\* byte strings handed to ImportPublic: up to MaxPubLen bytes out of PubByte,
\* the longest ones with a first byte that keeps the value within 31 bits
PubByte == {0, 1, 128, 255}
PubInputs ==
    UNION {[1 .. n -> PubByte] : n \in 0 .. BitLen(P) \div 8}
        \cup {<<b>> \o s : b \in {0, 1}, s \in [1 .. BitLen(P) \div 8 -> PubByte]}

\* party p exports its private key and imports it again
DoImportPrivate(p) ==
    /\ HasKey(p)
    /\ imp[p].err = NotCalled
    /\ \E rs \in Streams(1) :
          LET res == ImportPrivate(rs, ExportPrivate(prv[p].key))
          IN  imp' = [imp EXCEPT ![p] = [rd |-> rs[1], key |-> res.key,
                                         err |-> res.err]]
    /\ UNCHANGED <<prv, sk, pubImp, bl, kek, cek, pad>>

\* a caller imports a public key
DoImportPublic ==
    /\ \E in \in PubInputs :
          LET res == ImportPublic(in)
          IN  pubImp' = [in |-> in, pub |-> res.pub, err |-> res.err]
    /\ UNCHANGED <<prv, sk, imp, bl, kek, cek, pad>>

NextImport == \E p \in Parties : DoGenerateKey(p) \/ DoImportPrivate(p)

SpecImport == InitBase /\ [][NextImport]_vars

SpecPublic == InitBase /\ [][DoImportPublic]_vars

----------------------------------------------------------------------------
(* Blinded exponentiation on its own.                                      *)

Bases == (0 .. MaxBase) \cup {P - 2, P - 1}

DoBlind ==
    /\ \E rs \in Streams(1), a \in Bases, x \in 1 .. MaxRand :
          LET res == blind(rs, a, x)
          IN  bl' = [a |-> a, x |-> x, rd |-> rs[1], y |-> res.y, err |-> res.err]
    /\ UNCHANGED <<prv, sk, imp, pubImp, kek, cek, pad>>

SpecBlind == InitBase /\ [][DoBlind]_vars

----------------------------------------------------------------------------
(* Key derivation: KEK and CEK.                                            *)

\* the length PartyAInfo must have
lenAInfo == 64

AES256CBC == <<2, 16, 840, 1, 101, 3, 1, 42>>
\* the Algorithm of a KEKParams value that sets none
NoAlgorithm == <<>>

\* a nil byte slice given for ainfo is <<>>, a slice b is <<b>>
NilBytes == <<>>

\* KEKParams with its KeySpecificInfo; counter and PartyAInfo are nil when <<>>
KEKParams(alg, ainfo, supp) ==
    [Algorithm |-> alg, counter |-> <<>>, PartyAInfo |-> ainfo, SuppPubInfo |-> supp]

\* binary.Read of a big-endian uint32 (KeyLen) from a buffer; the model hands in
\* no buffer whose first byte exceeds 127
ReadUint32(buf) ==
    IF Len(buf) < 4 THEN [v |-> 0, err |-> ErrIO]
    ELSE [v |-> SetBytes(SubSeq(buf, 1, 4)), err |-> Nil]

\* binary.Read of a big-endian int32 (InitializeKEK) from a buffer
ReadInt32(buf) ==
    IF Len(buf) < 4 THEN [v |-> 0, err |-> ErrIO]
    ELSE [v |-> (buf[1] - (IF buf[1] >= 128 THEN 256 ELSE 0)) * 2 ^ 24
                    + SetBytes(SubSeq(buf, 2, 4)),
          err |-> Nil]

\* KEK.KeyLen
KeyLen(k) ==
    LET rd == ReadUint32(k.Params.SuppPubInfo)
    IN  IF rd.err # Nil THEN 0 ELSE rd.v

\* encoding/asn1: DER length, tag-length-value, base-128 and object identifier
DerLen(n) == IF n < 128 THEN <<n>> ELSE <<129, n>>
TLV(tag, c) == <<tag>> \o DerLen(Len(c)) \o c

RECURSIVE Base128Hi(_)
Base128Hi(n) == IF n = 0 THEN <<>> ELSE Append(Base128Hi(n \div 128), 128 + (n % 128))
Base128(n) == Append(Base128Hi(n \div 128), n % 128)

RECURSIVE Base128All(_)
Base128All(arcs) ==
    IF arcs = <<>> THEN <<>> ELSE Base128(Head(arcs)) \o Base128All(Tail(arcs))

OIDValid(arcs) ==
    /\ Len(arcs) >= 2
    /\ arcs[1] <= 2
    /\ (arcs[1] <= 1 => arcs[2] < 40)

OIDBytes(arcs) == Base128(arcs[1] * 40 + arcs[2]) \o Base128All(SubSeq(arcs, 3, Len(arcs)))

\* marshalKEKParams leaving the counter out of KeySpecificInfo
marshalKEKParamsNoCounter(k) ==
    LET q == k.Params
    IN  IF ~OIDValid(q.Algorithm) THEN [out |-> <<>>, err |-> ErrMarshal]
        ELSE [out |-> TLV(48, TLV(48, TLV(6, OIDBytes(q.Algorithm)))
                              \o (IF q.PartyAInfo = <<>> THEN <<>> ELSE TLV(4, q.PartyAInfo))
                              \o TLV(4, q.SuppPubInfo)),
              err |-> Nil]

\* marshalKEKParams(kek): the DER encoding of kek.Params, every field of
\* KeySpecificInfo written (the counter too), an empty PartyAInfo left out
marshalKEKParams(k) ==
    LET q == k.Params
    IN  IF ~OIDValid(q.Algorithm) THEN [out |-> <<>>, err |-> ErrMarshal]
        ELSE [out |-> TLV(48, TLV(48, TLV(6, OIDBytes(q.Algorithm)) \o TLV(4, q.counter))
                              \o (IF q.PartyAInfo = <<>> THEN <<>> ELSE TLV(4, q.PartyAInfo))
                              \o TLV(4, q.SuppPubInfo)),
              err |-> Nil]

\* incCounter(counter), bytes wrapping at 256
incCounter(c) ==
    LET c4 == (c[4] + 1) % 256
        c3 == (c[3] + 1) % 256
        c2 == (c[2] + 1) % 256
        c1 == (c[1] + 1) % 256
    IN  IF c4 # 0 THEN <<c[1], c[2], c[3], c4>>
        ELSE IF c3 # 0 THEN <<c[1], c[2], c3, c4>>
        ELSE IF c2 # 0 THEN <<c[1], c2, c3, c4>>
        ELSE <<c1, c2, c3, c4>>

\* zeroPad(in, outlen); out[start:] panics when start is negative
zeroPad(in, outlen) ==
    LET inLen == IF Len(in) > outlen THEN outlen ELSE Len(in)
        start == outlen - inLen - 1
    IN  IF start < 0 THEN [out |-> <<>>, err |-> Panic]
        ELSE [out |-> [i \in 1 .. outlen |->
                          IF i > start /\ i <= start + Len(in) /\ i - start <= Len(in)
                          THEN in[i - start] ELSE 0],
              err |-> Nil]

\* a *KEK: nil is <<>>, a KEK is <<[ZZ, Params, h]>>; h is the output size of
\* the hash the KEK holds, 0 for a nil hash

\* PrivateKey.InitializeKEK(rand, pub, params, ainfo, h): the *KEK returned
\* (err Nil), nil returned (err names the reason) or a panic
InitializeKEK(rs, X, A, params, ainfo, h) ==
    IF ainfo # NilBytes /\ Len(ainfo[1]) # lenAInfo
    THEN [k |-> NilKEK, err |-> ErrInvalidKEKParams]
    ELSE LET rd == ReadInt32(params.SuppPubInfo)
         IN  IF rd.err # Nil THEN [k |-> NilKEK, err |-> rd.err]
             ELSE LET keylen == rd.v
                      s == SharedKey(rs, X, A, keylen)
                  IN  IF s.err # Nil THEN [k |-> NilKEK, err |-> s.err]
                      ELSE LET zz == zeroPad(s.sk, (BitLen(P) + 7) \div 8)
                           IN  IF zz.err # Nil THEN [k |-> NilKEK, err |-> zz.err]
                               ELSE [k |-> <<[ZZ |-> zz.out,
                                              Params |-> [params EXCEPT
                                                  !.PartyAInfo =
                                                      IF ainfo = NilBytes THEN <<>>
                                                      ELSE ainfo[1],
                                                  !.counter = <<0, 0, 0, 1>>],
                                              h |-> h]>>,
                                     err |-> Nil]

\* hash.Hash: Sum of a message is h bytes, byte j of the digest of msg being
\* the pair of msg and j (no two messages share a digest byte)
Sum(h, msg) == [j \in 1 .. h |-> [msg |-> msg, j |-> j]]

\* the loop of CEK without its incCounter
RECURSIVE cekLoopNoInc(_, _, _, _, _, _)
cekLoopNoInc(i, keylen, h, msg, key, ctr) ==
    IF ~(i < keylen) THEN [key |-> key, counter |-> ctr]
    ELSE LET sum == Sum(h, msg)
             n == IF keylen - i < h THEN keylen - i ELSE h
         IN  cekLoopNoInc(i + h, keylen, h, msg,
                          [j \in 1 .. keylen |-> IF j > i /\ j <= i + n THEN sum[j - i]
                                                  ELSE key[j]],
                          ctr)

\* the loop of CEK from offset i: the key bytes written and the counter left
RECURSIVE cekLoop(_, _, _, _, _, _)
cekLoop(i, keylen, h, msg, key, ctr) ==
    IF ~(i < keylen) THEN [key |-> key, counter |-> ctr]
    ELSE LET sum == Sum(h, msg)
             n == IF keylen - i < h THEN keylen - i ELSE h
         IN  cekLoop(i + h, keylen, h, msg,
                     [j \in 1 .. keylen |-> IF j > i /\ j <= i + n THEN sum[j - i]
                                             ELSE key[j]],
                     incCounter(ctr))

\* a key byte that make([]byte, keylen) left zero
ZeroByte == [msg |-> <<>>, j |-> 0]

\* CEK without the test for a zero key length
CEKNoZeroCheck(kk) ==
    IF kk = NilKEK THEN [key |-> <<>>, err |-> ErrInvalidKEKParams, k |-> kk]
    ELSE LET k == kk[1]
             otherInfo == marshalKEKParams(k)
         IN  IF otherInfo.err # Nil
             THEN [key |-> <<>>, err |-> otherInfo.err, k |-> kk]
             ELSE IF k.h = 0 \/ k.Params.counter = <<>>
             THEN [key |-> <<>>, err |-> Panic, k |-> kk]
             ELSE LET r == cekLoop(0, KeyLen(k), k.h, k.ZZ \o otherInfo.out,
                                   [j \in 1 .. KeyLen(k) |-> ZeroByte],
                                   k.Params.counter)
                  IN  [key |-> r.key, err |-> Nil,
                       k |-> <<[k EXCEPT !.Params.counter = r.counter]>>]

\* PrivateKey.CEK(kek): the key, the error and the KEK as the call leaves it
CEK(kk) ==
    IF kk = NilKEK THEN [key |-> <<>>, err |-> ErrInvalidKEKParams, k |-> kk]
    ELSE LET k == kk[1]
             keylen == KeyLen(k)
         IN  IF keylen = 0 THEN [key |-> <<>>, err |-> ErrInvalidKEKParams, k |-> kk]
             ELSE LET otherInfo == marshalKEKParams(k)
                  IN  IF otherInfo.err # Nil
                      THEN [key |-> <<>>, err |-> otherInfo.err, k |-> kk]
                      ELSE IF k.h = 0 \/ k.Params.counter = <<>>
                      THEN [key |-> <<>>, err |-> Panic, k |-> kk]
                      ELSE LET r == cekLoop(0, keylen, k.h, k.ZZ \o otherInfo.out,
                                            [j \in 1 .. keylen |-> ZeroByte],
                                            k.Params.counter)
                           IN  [key |-> r.key, err |-> Nil,
                                k |-> <<[k EXCEPT !.Params.counter = r.counter]>>]

\* the parties start with key pairs that GenerateKey returned
InitKeys ==
    /\ prv \in [Parties -> {GenerateKey(rs) :
                              rs \in {t \in Streams(2) : t[1].ok /\ t[2].ok
                                                          /\ Resamples(t) = 0}}]
    /\ sk = [p \in Parties |-> NoSk]
    /\ imp = [p \in Parties |-> NoImp]
    /\ pubImp = NoPubImp
    /\ bl = NoBl
    /\ kek = [p \in Parties |-> [k |-> NilKEK, err |-> NotCalled]]
    /\ cek = [p \in Parties |-> <<>>]
    /\ pad = NoPad

Algorithms == {AES256CBC, NoAlgorithm}

AInfos == {NilBytes, <<[i \in 1 .. lenAInfo |-> 0]>>, <<[i \in 1 .. lenAInfo - 1 |-> 0]>>}

SuppInputs ==
    {<<0, 0, 0, n>> : n \in 0 .. MaxKeyLen} \cup {<<0, 0, 1>>, <<0, 0, 0, 1, 0>>}

\* a KEK that a caller built as a struct value, without InitializeKEK
Literal == "literal"

\* party p sets up a KEK for the other party's public key
DoInitializeKEK(p, algs, ainfos) ==
    /\ kek[p].err = NotCalled
    /\ HasKey(p) /\ HasKey(Other(p))
    /\ \E rs \in Streams(1), alg \in algs, ainfo \in ainfos, supp \in SuppInputs,
          h \in 1 .. MaxHash :
          kek' = [kek EXCEPT ![p] =
                      InitializeKEK(rs, prv[p].key[1].X, prv[Other(p)].key[1].A,
                                    KEKParams(alg, <<>>, supp), ainfo, h)]
    /\ UNCHANGED <<prv, sk, imp, pubImp, bl, cek, pad>>

\* party p builds a KEK value itself: no shared secret, no counter, no hash
DoLiteralKEK(p) ==
    /\ kek[p].err = NotCalled
    /\ \E alg \in Algorithms, supp \in SuppInputs :
          kek' = [kek EXCEPT ![p] =
                      [k |-> <<[ZZ |-> <<>>, Params |-> KEKParams(alg, <<>>, supp),
                                h |-> 0]>>,
                       err |-> Literal]]
    /\ UNCHANGED <<prv, sk, imp, pubImp, bl, cek, pad>>

CounterOf(kk) == IF kk = NilKEK THEN <<>> ELSE kk[1].Params.counter

\* party p calls prv.CEK(kek) on what InitializeKEK returned to it (nil when
\* that failed) or on the KEK it built
DoCEK(p) ==
    /\ kek[p].err # NotCalled
    /\ Len(cek[p]) < MaxCalls
    /\ LET r == CEK(kek[p].k)
       IN  /\ kek' = [kek EXCEPT ![p].k = r.k]
           /\ cek' = [cek EXCEPT ![p] =
                          Append(@, [key |-> r.key, err |-> r.err,
                                     c0 |-> CounterOf(kek[p].k),
                                     c1 |-> CounterOf(r.k)])]
    /\ UNCHANGED <<prv, sk, imp, pubImp, bl, pad>>

\* one party deriving keys
NextKEK == DoInitializeKEK(1, Algorithms, AInfos) \/ DoLiteralKEK(1) \/ DoCEK(1)

SpecKEK == InitKeys /\ [][NextKEK]_vars

\* both parties deriving keys for one algorithm
NextPair == \E p \in Parties : DoInitializeKEK(p, {AES256CBC}, {NilBytes}) \/ DoCEK(p)

SpecPair == InitKeys /\ [][NextPair]_vars

----------------------------------------------------------------------------
(* Properties.                                                             *)

\* the value of a big-endian byte string
RECURSIVE BigEndian(_)
BigEndian(s) ==
    IF s = <<>> THEN 0 ELSE Head(s) * 256 ^ (Len(s) - 1) + BigEndian(Tail(s))

\* the bytes of the secret that X and the element A give, whatever the draw
SecretBytes(X, A) ==
    Bytes(blind(<<[ok |-> TRUE, bs |-> [i \in 1 .. lenPriv |-> 0]]>>, A, X).y)

\* p called SharedKey and the random source gave it its draw
SkDone(p) == sk[p].err \notin {NotCalled, ErrBlindingFailed}

\* p and q each called SharedKey with the other's public key and one size
Exchanged(p, q) ==
    /\ HasKey(p) /\ HasKey(q)
    /\ SkDone(p) /\ SkDone(q)
    /\ sk[p].pub = prv[q].key[1].A
    /\ sk[q].pub = prv[p].key[1].A
    /\ sk[p].size = sk[q].size

\* C1: two generated key pairs that call SharedKey with each other's public
\* key and the same size, a size no longer than the secret's bytes, both
\* succeed and get the same size bytes, whatever the two blinding draws.
C1_Symmetry ==
    \A p \in Parties :
        LET q == Other(p)
        IN  (/\ Exchanged(p, q)
             /\ sk[p].size <= Len(SecretBytes(prv[p].key[1].X, prv[q].key[1].A)))
            => /\ sk[p].err = Nil /\ sk[q].err = Nil
               /\ Len(sk[p].sk) = sk[p].size
               /\ sk[p].sk = sk[q].sk

C1_Witness ==
    /\ Exchanged(1, 2)
    /\ prv[1].key[1].X # prv[2].key[1].X
    /\ sk[1].size = (BitLen(P) + 7) \div 8
    /\ sk[1].err = Nil /\ sk[2].err = Nil
    /\ sk[1].sk = sk[2].sk

\* C5: a generated private key that is exported and imported again comes back
\* with the same exponent X and the same public element A, whatever the
\* blinding draw of the import.
C5_PrivateRoundTrip ==
    \A p \in Parties :
        (imp[p].err # NotCalled /\ imp[p].rd.ok)
        => /\ imp[p].err = Nil
           /\ imp[p].key # NilKey
           /\ imp[p].key[1].X = prv[p].key[1].X
           /\ imp[p].key[1].A = prv[p].key[1].A

C5_Witness ==
    /\ imp[1].err = Nil /\ imp[2].err = Nil
    /\ prv[1].key = prv[2].key
    /\ imp[1].rd # imp[2].rd
    /\ imp[1].key = prv[1].key /\ imp[2].key = prv[2].key

\* C6: a SharedKey call with a valid peer key whose secret has fewer bytes
\* than the requested size returns ErrInvalidSharedKey and no key bytes.
C6_ShortSecretIsError ==
    \A p \in Parties :
        (/\ SkDone(p)
         /\ Valid(sk[p].pub)
         /\ Len(SecretBytes(prv[p].key[1].X, sk[p].pub)) < sk[p].size)
        => sk[p].err = ErrInvalidSharedKey /\ sk[p].sk = <<>>

\* C7: ImportPublic succeeds exactly when the decoded integer A has 0 < A and
\* a bit length of at most that of P, and otherwise returns
\* ErrInvalidPublicKey and no key.
C7_PublicKeyValidation ==
    pubImp.err # NotCalled
    => LET A == BigEndian(pubImp.in)
       IN  /\ pubImp.err = Nil <=> (0 < A /\ BitLen(A) <= BitLen(P))
           /\ pubImp.err # Nil => (pubImp.err = ErrInvalidPublicKey /\ pubImp.pub = <<>>)
           /\ pubImp.err = Nil => pubImp.pub = <<A>>

\* C9: for a base a in 1..P-1 and any draw, blind(a, x) is a^x mod P.
C9_BlindingTransparent ==
    (bl.err = Nil /\ bl.a \in 1 .. P - 1) => bl.y = Exp(bl.a, bl.x, P)

----------------------------------------------------------------------------
(* Properties of the key derivation.                                       *)

IsNil(c) == c.err = Nil

\* the CEK calls of p that returned a key
Successes(p) == SelectSeq(cek[p], IsNil)

\* the hash blocks a CEK call of this KEK takes
Blocks(k) == (KeyLen(k) + k.h - 1) \div k.h

\* the messages whose digests make up a derived key
Inputs(c) == {c.key[j].msg : j \in 1 .. Len(c.key)}

\* what the KEK hashes at counter value ctr: the padded secret, then otherInfo
HashInput(k, ctr) ==
    k.ZZ \o marshalKEKParams([k EXCEPT !.Params.counter = ctr]).out

\* the two parties hold KEKs that InitializeKEK made from the same parameters
\* and hash size, each for the other's public key
SameSetup ==
    /\ kek[1].err = Nil /\ kek[2].err = Nil
    /\ kek[1].k[1].Params.Algorithm = kek[2].k[1].Params.Algorithm
    /\ kek[1].k[1].Params.PartyAInfo = kek[2].k[1].Params.PartyAInfo
    /\ kek[1].k[1].Params.SuppPubInfo = kek[2].k[1].Params.SuppPubInfo
    /\ kek[1].k[1].h = kek[2].k[1].h

\* C2: two KEKs initialized by the two parties with identical parameters and
\* the same hash give, call for call, the same CEKs, however the calls on
\* the two are interleaved.
C2_Agreement ==
    SameSetup
    => \A i \in 1 .. Len(Successes(1)) :
           i <= Len(Successes(2)) => Successes(1)[i].key = Successes(2)[i].key

C2_Witness ==
    /\ SameSetup
    /\ prv[1].key # prv[2].key
    /\ Blocks(kek[1].k[1]) > 1
    /\ Len(Successes(1)) >= 2 /\ Len(Successes(2)) >= 2
    /\ Successes(1)[2].key = Successes(2)[2].key

\* C3: on one KEK every successful CEK call hashes the padded secret followed
\* by otherInfo with the counter value the call started from, no two calls
\* start from the same counter value, no message is hashed by two calls, and
\* the keys returned are pairwise distinct.
C3_Uniqueness ==
    kek[1].err = Nil
    => LET S == Successes(1)
       IN  /\ \A i \in 1 .. Len(S) :
                  \A m \in Inputs(S[i]) : m = HashInput(kek[1].k[1], S[i].c0)
           /\ \A i, j \in 1 .. Len(S) :
                  i < j => /\ S[i].c0 # S[j].c0
                           /\ Inputs(S[i]) \cap Inputs(S[j]) = {}
                           /\ S[i].key # S[j].key

C3_Witness ==
    /\ kek[1].err = Nil
    /\ Len(Successes(1)) >= 3
    /\ Successes(1)[1].key # Successes(1)[3].key

\* C4 as claimed: the counter of a KEK from InitializeKEK is 1 plus the
\* number of successful CEK calls made on it.
C4_CounterPlusOnePerCall ==
    kek[1].err = Nil
    => BigEndian(kek[1].k[1].Params.counter) = 1 + Len(Successes(1))

\* C4, amended: the counter of a KEK from InitializeKEK starts at 00 00 00 01,
\* a successful CEK call advances it by one for every hash block of the key
\* (by exactly one when the key is no longer than the hash output), a failed
\* call leaves it alone, and nothing changes it between calls.
C4_CounterPerBlock ==
    kek[1].err = Nil
    => LET k == kek[1].k[1]
           S == cek[1]
       IN  /\ S = <<>> => k.Params.counter = <<0, 0, 0, 1>>
           /\ S # <<>> => (S[1].c0 = <<0, 0, 0, 1>> /\ k.Params.counter = S[Len(S)].c1)
           /\ \A i \in 1 .. Len(S) :
                  /\ Len(S[i].c1) = 4
                  /\ BigEndian(S[i].c1) =
                        BigEndian(S[i].c0) + (IF S[i].err = Nil THEN Blocks(k) ELSE 0)
                  /\ i < Len(S) => S[i + 1].c0 = S[i].c1
           /\ KeyLen(k) <= k.h
                  => BigEndian(k.Params.counter) = 1 + Len(Successes(1))

C4_Witness ==
    /\ kek[1].err = Nil
    /\ Blocks(kek[1].k[1]) = 2
    /\ Len(Successes(1)) = 2
    /\ kek[1].k[1].Params.counter = <<0, 0, 0, 5>>

\* C8: a CEK call on a nil KEK, or on a KEK whose SuppPubInfo is shorter than
\* four bytes or decodes to 0, returns ErrInvalidKEKParams and no key and
\* leaves the KEK as it was.
C8_ZeroKeyLenRejected ==
    [][(/\ cek'[1] # cek[1]
        /\ \/ kek[1].k = NilKEK
           \/ Len(kek[1].k[1].Params.SuppPubInfo) < 4
           \/ BigEndian(SubSeq(kek[1].k[1].Params.SuppPubInfo, 1, 4)) = 0)
       => /\ kek' = kek
          /\ cek'[1][Len(cek'[1])].err = ErrInvalidKEKParams
          /\ cek'[1][Len(cek'[1])].key = <<>>]_vars

C8_Witness ==
    /\ kek[1].err = Nil
    /\ kek[1].k[1].Params.SuppPubInfo = <<0, 0, 0, 0>>
    /\ Len(cek[1]) >= 1
    /\ cek[1][1].err = ErrInvalidKEKParams
    /\ kek[1].k[1].Params.counter = <<0, 0, 0, 1>>

\* C10: in a CEK call that takes more than one hash block, block number b is
\* the digest of the padded secret followed by otherInfo with the counter as
\* it stands at that block, b - 1 above the counter the call started from.
C10_PerBlockCounter ==
    kek[1].err = Nil
    => LET k == kek[1].k[1]
           S == Successes(1)
       IN  \A i \in 1 .. Len(S) :
               \A j \in 1 .. Len(S[i].key) :
                   S[i].key[j].msg =
                       HashInput(k, <<0, 0, 0, BigEndian(S[i].c0) + (j - 1) \div k.h>>)

----------------------------------------------------------------------------
(* Padding on its own.                                                     *)

PadInputs == UNION {[1 .. n -> PubByte] : n \in 0 .. MaxPadLen}

DoZeroPad ==
    /\ \E in \in PadInputs, outlen \in 0 .. MaxPadLen :
          LET res == zeroPad(in, outlen)
          IN  pad' = [in |-> in, outlen |-> outlen, out |-> res.out, err |-> res.err]
    /\ UNCHANGED <<prv, sk, imp, pubImp, bl, kek, cek>>

SpecPad == InitBase /\ [][DoZeroPad]_vars

\* C11: for an input no longer than outlen (as long as outlen included),
\* zeroPad returns, without a panic, outlen bytes whose last len(in) bytes are
\* the input and whose bytes before them are zero.
C11_ZeroPadRightAligned ==
    (pad.err # NotCalled /\ Len(pad.in) <= pad.outlen)
    => /\ pad.err = Nil
       /\ Len(pad.out) = pad.outlen
       /\ \A i \in 1 .. pad.outlen :
              pad.out[i] = IF i <= pad.outlen - Len(pad.in) THEN 0
                           ELSE pad.in[i - (pad.outlen - Len(pad.in))]

====
